---- MODULE Spec2Model ----
(***************************************************************************)
(* The Platform of src/lib.rs: the bridge that turns winit events into     *)
(* egui's RawInput and drives egui's begin_frame / end_frame.              *)
(*                                                                         *)
(* Numbers.  The code computes in f32/f64.  The model computes with exact  *)
(* rationals <<numerator, denominator>> (reduced, denominator > 0), so a   *)
(* division is a division and not the identity; f32 rounding is not        *)
(* modelled.  Characters are Unicode code points, strings are sequences of *)
(* code points.                                                            *)
(***************************************************************************)
EXTENDS Integers, Sequences, FiniteSets, TLC

VARIABLES
    scale_factor,     \* Platform.scale_factor
    raw_input,        \* Platform.raw_input (egui::RawInput)
    modifier_state,   \* Platform.modifier_state (winit ModifiersState)
    pointer_pos,      \* Platform.pointer_pos
    clipboard,        \* Platform.clipboard is Some(..)
    context,          \* Platform.context: what the egui context holds
    build,            \* cargo features, target_os and the egui version built against
    constructed_from, \* history: the descriptor Platform::new was given
    last_delivered_time, \* history: the last timestamp a begin_frame handed over
    last_op,          \* the call that ran last, with its argument
    ret,              \* what that call returned to the caller
    effects,          \* what end_frame's side effects did
    phase,            \* history: where the frame cycle stands
    ingest_phases,    \* history: the phases in which handle_event pushed an event
    appended,         \* history: every egui event pushed since construction
    delivered,        \* history: every egui event handed to Context::begin_frame
    since_begin,      \* history: the egui events pushed since the last begin_frame
    last_moved,       \* history: the latest CursorMoved and the scale factor it saw
    window_wheels     \* history: the last two MouseWheel deltas since begin_frame

platform == <<scale_factor, raw_input, modifier_state, pointer_pos, clipboard>>

vars == <<scale_factor, raw_input, modifier_state, pointer_pos, clipboard,
          context, build, constructed_from, last_delivered_time, last_op, ret, effects,
          phase, ingest_phases, appended, delivered, since_begin, last_moved, window_wheels>>

----------------------------------------------------------------------------
(* Bounds of the model *)

\* handle_event calls that push, in one run of the frame cycle
MaxAppended == 3
\* handle_event calls that push, in one run of the pointer
MaxPointerPushes == 3
\* handle_event calls that push, in one run of the keyboard
MaxKeyPushes == 2
\* handle_event calls that push, in one run of the output side
MaxOutputPushes == 1
\* characters in the decoded text of one key event
MaxTextLen == 2
\* handle_event calls that push, in one run after construction
MaxConstructPushes == 1
\* key presses that push, in one run of modifier changes and key presses
MaxModifierPushes == 1
\* key events that push, in one run of keys with decoded text
MaxKeyTextPushes == 1
\* handle_event calls that push, in one run of pastes
MaxPastePushes == 2
\* handle_event calls that push, in one run of button events
MaxButtonPushes == 2
\* handle_event calls that push, in one run of bookkeeping events
MaxBookkeepingPushes == 1
\* handle_event calls that push, in one run of update_time calls and frames
MaxTimePushes == 1
\* handle_event calls that push, in one run of scale factor changes
MaxScalePushes == 1
\* handle_event calls that push, in one run of pointer positions
MaxPositionPushes == 2
\* handle_event calls that push, in one run of ignored events
MaxIgnoredPushes == 2

----------------------------------------------------------------------------
(* Rational arithmetic standing in for f32 *)

Abs(n) == IF n < 0 THEN -n ELSE n

RECURSIVE Gcd(_, _)
Gcd(a, b) == IF b = 0 THEN a ELSE Gcd(b, a % b)

\* the rational n/d, reduced; d # 0
Frac(n, d) ==
    LET g == Gcd(Abs(n), Abs(d))
        s == IF d < 0 THEN -1 ELSE 1
    IN  <<(s * n) \div g, (s * d) \div g>>

FracOf(n) == <<n, 1>>
FracDiv(a, b) == Frac(a[1] * b[2], a[2] * b[1])
FracMul(a, b) == Frac(a[1] * b[1], a[2] * b[2])
FracAdd(a, b) == Frac(a[1] * b[2] + b[1] * a[2], a[2] * b[2])
FracSub(a, b) == Frac(a[1] * b[2] - b[1] * a[2], a[2] * b[2])

vec2(x, y) == [x |-> x, y |-> y]
pos2(x, y) == [x |-> x, y |-> y]
Vec2Div(v, f) == vec2(FracDiv(v.x, f), FracDiv(v.y, f))
Vec2Mul(v, f) == vec2(FracMul(v.x, f), FracMul(v.y, f))
Zero2 == vec2(FracOf(0), FracOf(0))

\* egui::Rect::from_min_size
from_min_size(min, size) ==
    [min |-> min, max |-> pos2(FracAdd(min.x, size.x), FracAdd(min.y, size.y))]

line_height == 24

----------------------------------------------------------------------------
(* Option<T>: None is the empty sequence, Some(v) the one-element sequence *)

Some(v) == <<v>>
Nothing == <<>>
IsSome(o) == o # <<>>
Unwrap(o) == o[1]

----------------------------------------------------------------------------
(* winit events, as far as the code looks at them *)

Pressed == "Pressed"
Released == "Released"

\* winit::keyboard::ModifiersState
Mods(alt, ctrl, shift, super) ==
    [alt |-> alt, ctrl |-> ctrl, shift |-> shift, super |-> super]
ModsEmpty == Mods(FALSE, FALSE, FALSE, FALSE)
alt_key(m) == m.alt
control_key(m) == m.ctrl
shift_key(m) == m.shift
super_key(m) == m.super

\* winit::keyboard::Key: a named key or Character(string)
NamedKey(n) == [named |-> n, character |-> <<>>]
Character(s) == [named |-> "Character", character |-> s]

Resized(w, h) == [ev |-> "WindowEvent", type |-> "Resized", width |-> w, height |-> h]
ScaleFactorChanged(sf, w, h) ==
    [ev |-> "WindowEvent", type |-> "ScaleFactorChanged",
     scale_factor |-> sf, width |-> w, height |-> h]
MouseInput(state, button) ==
    [ev |-> "WindowEvent", type |-> "MouseInput", state |-> state, button |-> button]
LineDelta(x, y) == [unit |-> "LineDelta", x |-> x, y |-> y]
PixelDelta(x, y) == [unit |-> "PixelDelta", x |-> x, y |-> y]
MouseWheel(delta) == [ev |-> "WindowEvent", type |-> "MouseWheel", delta |-> delta]
CursorMoved(x, y) == [ev |-> "WindowEvent", type |-> "CursorMoved", x |-> x, y |-> y]
CursorLeft == [ev |-> "WindowEvent", type |-> "CursorLeft"]
ModifiersChanged(m) == [ev |-> "WindowEvent", type |-> "ModifiersChanged", state |-> m]
KeyboardInput(state, key, text) ==
    [ev |-> "WindowEvent", type |-> "KeyboardInput",
     state |-> state, logical_key |-> key, text |-> text]
\* a window event the code has no arm for (Focused, CloseRequested, ...)
OtherWindowEvent(t) == [ev |-> "WindowEvent", type |-> t]
DeviceEvent == [ev |-> "DeviceEvent", type |-> "DeviceEvent"]
\* an Event that is neither WindowEvent nor DeviceEvent (MainEventsCleared, ...)
OtherEvent(t) == [ev |-> t, type |-> t]
NoEvent == [ev |-> "None", type |-> "None"]

----------------------------------------------------------------------------
(* egui events and RawInput *)

\* egui::Modifiers
EguiMods(alt, ctrl, shift, mac_cmd, command) ==
    [alt |-> alt, ctrl |-> ctrl, shift |-> shift, mac_cmd |-> mac_cmd, command |-> command]
EguiModsDefault == EguiMods(FALSE, FALSE, FALSE, FALSE, FALSE)

PointerButton(pos, button, pressed, modifiers) ==
    [type |-> "PointerButton", pos |-> pos, button |-> button,
     pressed |-> pressed, modifiers |-> modifiers]
PointerMoved(pos) == [type |-> "PointerMoved", pos |-> pos]
PointerGone == [type |-> "PointerGone"]
Copy == [type |-> "Copy"]
Cut == [type |-> "Cut"]
Text(s) == [type |-> "Text", text |-> s]
Key(key, pressed, modifiers) ==
    [type |-> "Key", key |-> key, pressed |-> pressed, modifiers |-> modifiers]

\* egui::RawInput::default()
RawInputDefault ==
    [events |-> <<>>, scroll_delta |-> Zero2, screen_rect |-> Nothing,
     pixels_per_point |-> Nothing, time |-> Nothing]

----------------------------------------------------------------------------
(* The translation tables *)

\* char::to_ascii_lowercase
to_ascii_lowercase(ch) == IF ch >= 65 /\ ch <= 90 THEN ch + 32 ELSE ch

\* str::eq_ignore_ascii_case
eq_ignore_ascii_case(a, b) ==
    /\ Len(a) = Len(b)
    /\ \A i \in 1..Len(a) : to_ascii_lowercase(a[i]) = to_ascii_lowercase(b[i])

\* the closure is_char of handle_event
is_char(key, test_char) ==
    key.named = "Character" /\ eq_ignore_ascii_case(key.character, test_char)

Str_c == <<99>>
Str_x == <<120>>
Str_v == <<118>>

NamedKeyTable ==
    {"Escape", "Insert", "Home", "Delete", "End", "PageDown", "PageUp",
     "ArrowLeft", "ArrowUp", "ArrowRight", "ArrowDown", "Backspace", "Enter",
     "Tab", "Space"}

\* winit_to_egui_key_code: Some(egui key) or None
winit_to_egui_key_code(key) ==
    IF key.named \in NamedKeyTable THEN Some(key.named)
    ELSE IF key.named = "Character" THEN
        CASE key.character \in {<<65>>, <<97>>}  -> Some("A")
          [] key.character \in {<<75>>, <<107>>} -> Some("K")
          [] key.character \in {<<85>>, <<117>>} -> Some("U")
          [] key.character \in {<<87>>, <<119>>} -> Some("W")
          [] key.character \in {<<90>>, <<122>>} -> Some("Z")
          [] OTHER -> Nothing
    ELSE Nothing

\* winit_to_egui_modifiers, for the target the crate is built for
winit_to_egui_modifiers(modifiers, macos) ==
    EguiMods(alt_key(modifiers), control_key(modifiers), shift_key(modifiers),
             IF macos THEN super_key(modifiers) ELSE FALSE,
             IF macos THEN super_key(modifiers) ELSE control_key(modifiers))

\* char::is_ascii_control: U+0000..U+001F and U+007F
is_ascii_control(chr) == chr <= 31 \/ chr = 127

\* is_printable with the upper ends of the ranges left out (< for <=)
is_printable_open(chr) ==
    LET is_in_private_use_area ==
            \/ 57344 <= chr /\ chr < 63743
            \/ 983040 <= chr /\ chr < 1048573
            \/ 1048576 <= chr /\ chr < 1114109
    IN  ~is_in_private_use_area /\ ~is_ascii_control(chr)

\* is_printable; the ranges are U+E000..U+F8FF, U+F0000..U+FFFFD, U+100000..U+10FFFD
is_printable(chr) ==
    LET is_in_private_use_area ==
            \/ 57344 <= chr /\ chr <= 63743
            \/ 983040 <= chr /\ chr <= 1048573
            \/ 1048576 <= chr /\ chr <= 1114109
    IN  ~is_in_private_use_area /\ ~is_ascii_control(chr)

\* text.chars().filter(|ch| is_printable(*ch)).collect::<String>()
filter_printable(text) == SelectSeq(text, is_printable)

----------------------------------------------------------------------------
(* Results of the fallible calls: Err is the empty sequence, Ok(v) is <<v>> *)

Ok(v) == <<v>>
Err == <<>>
IsOk(r) == r # <<>>

----------------------------------------------------------------------------
(* handle_event, one operator per match arm.  self is the Platform as a     *)
(* record; every arm returns the Platform after the arm.                    *)

Self ==
    [scale_factor |-> scale_factor, raw_input |-> raw_input,
     modifier_state |-> modifier_state, pointer_pos |-> pointer_pos]

\* self.raw_input.events.push(e)
push(self, e) == [self EXCEPT !.raw_input.events = Append(@, e)]

\* Resized(physical_size)
on_Resized(self, ev) ==
    [self EXCEPT !.raw_input.screen_rect =
        Some(from_min_size(Zero2,
             Vec2Div(vec2(FracOf(ev.width), FracOf(ev.height)), self.scale_factor)))]

\* ScaleFactorChanged dividing the new size by the scale factor stored before it
on_ScaleFactorChanged_stale(self, ev) ==
    LET s1 == [self EXCEPT !.raw_input.screen_rect =
                  Some(from_min_size(Zero2,
                       Vec2Div(vec2(FracOf(ev.width), FracOf(ev.height)),
                               self.scale_factor)))]
        s2 == [s1 EXCEPT !.raw_input.pixels_per_point = Some(ev.scale_factor)]
    IN  [s2 EXCEPT !.scale_factor = ev.scale_factor]

\* ScaleFactorChanged converting the stored pointer position to the new factor
on_ScaleFactorChanged_rescales_pointer(self, ev) ==
    LET s1 == [self EXCEPT !.scale_factor = ev.scale_factor]
        s2 == [s1 EXCEPT !.raw_input.pixels_per_point = Some(ev.scale_factor)]
        s3 == [s2 EXCEPT !.pointer_pos =
                  pos2(FracDiv(FracMul(self.pointer_pos.x, self.scale_factor),
                               ev.scale_factor),
                       FracDiv(FracMul(self.pointer_pos.y, self.scale_factor),
                               ev.scale_factor))]
    IN  [s3 EXCEPT !.raw_input.screen_rect =
            Some(from_min_size(Zero2,
                 Vec2Div(vec2(FracOf(ev.width), FracOf(ev.height)), s2.scale_factor)))]

\* ScaleFactorChanged { scale_factor, new_inner_size }
on_ScaleFactorChanged(self, ev) ==
    LET s1 == [self EXCEPT !.scale_factor = ev.scale_factor]
        s2 == [s1 EXCEPT !.raw_input.pixels_per_point = Some(ev.scale_factor)]
    IN  [s2 EXCEPT !.raw_input.screen_rect =
            Some(from_min_size(Zero2,
                 Vec2Div(vec2(FracOf(ev.width), FracOf(ev.height)), s2.scale_factor)))]

\* MouseInput reporting an Other(..) button as the middle one
on_MouseInput_other_as_middle(self, ev) ==
    push(self,
         PointerButton(self.pointer_pos,
                       CASE ev.button = "Left" -> "Primary"
                         [] ev.button = "Right" -> "Secondary"
                         [] OTHER -> "Middle",
                       ev.state = Pressed,
                       EguiModsDefault))

\* MouseInput reporting the stored modifier state in the PointerButton event
on_MouseInput_stored_modifiers(self, ev) ==
    IF ev.button = "Other" THEN self
    ELSE push(self,
              PointerButton(self.pointer_pos,
                            CASE ev.button = "Left" -> "Primary"
                              [] ev.button = "Right" -> "Secondary"
                              [] ev.button = "Middle" -> "Middle",
                            ev.state = Pressed,
                            winit_to_egui_modifiers(self.modifier_state, FALSE)))

\* MouseInput { state, button, .. }
on_MouseInput(self, ev) ==
    IF ev.button = "Other" THEN self
    ELSE push(self,
              PointerButton(self.pointer_pos,
                            CASE ev.button = "Left" -> "Primary"
                              [] ev.button = "Right" -> "Secondary"
                              [] ev.button = "Middle" -> "Middle",
                            ev.state = Pressed,
                            EguiModsDefault))

Vec2Add(a, b) == vec2(FracAdd(a.x, b.x), FracAdd(a.y, b.y))

\* MouseWheel adding to the pending scroll delta (+= for =)
on_MouseWheel_accumulates(self, ev) ==
    IF ev.delta.unit = "LineDelta"
    THEN [self EXCEPT !.raw_input.scroll_delta =
            Vec2Add(@, Vec2Mul(vec2(FracOf(ev.delta.x), FracOf(ev.delta.y)),
                               FracOf(line_height)))]
    ELSE [self EXCEPT !.raw_input.scroll_delta =
            Vec2Add(@, vec2(FracOf(ev.delta.x), FracOf(ev.delta.y)))]

\* MouseWheel { delta, .. }
on_MouseWheel(self, ev) ==
    IF ev.delta.unit = "LineDelta"
    THEN [self EXCEPT !.raw_input.scroll_delta =
            Vec2Mul(vec2(FracOf(ev.delta.x), FracOf(ev.delta.y)), FracOf(line_height))]
    ELSE [self EXCEPT !.raw_input.scroll_delta =
            vec2(FracOf(ev.delta.x), FracOf(ev.delta.y))]

\* CursorMoved storing the physical position, the division forgotten
on_CursorMoved_physical(self, ev) ==
    LET s1 == [self EXCEPT !.pointer_pos = pos2(FracOf(ev.x), FracOf(ev.y))]
    IN  push(s1, PointerMoved(s1.pointer_pos))

\* CursorMoved { position, .. }
on_CursorMoved(self, ev) ==
    LET s1 == [self EXCEPT !.pointer_pos =
                  pos2(FracDiv(FracOf(ev.x), self.scale_factor),
                       FracDiv(FracOf(ev.y), self.scale_factor))]
    IN  push(s1, PointerMoved(s1.pointer_pos))

\* CursorLeft { .. }
on_CursorLeft(self, ev) == push(self, PointerGone)

\* the Key event built with no modifiers, the stored state not consulted
on_KeyboardInput_pressed_default_modifiers(self, ev, has_clipboard, clip_read, macos) ==
    LET pressed == ev.state = Pressed
        is_ctrl == control_key(self.modifier_state)
        key     == winit_to_egui_key_code(ev.logical_key)
    IN  IF pressed THEN
            IF is_ctrl /\ is_char(ev.logical_key, Str_c) THEN push(self, Copy)
            ELSE IF is_ctrl /\ is_char(ev.logical_key, Str_x) THEN push(self, Cut)
            ELSE IF is_ctrl /\ is_char(ev.logical_key, Str_v) THEN
                IF has_clipboard /\ IsOk(clip_read)
                THEN push(self, Text(Unwrap(clip_read)))
                ELSE self
            ELSE IF IsSome(key) THEN
                push(self, Key(Unwrap(key), ev.state = Pressed, EguiModsDefault))
            ELSE self
        ELSE self

\* ctrl+v passing the clipboard contents through the printable filter
on_KeyboardInput_pressed_filtered_paste(self, ev, has_clipboard, clip_read, macos) ==
    LET pressed == ev.state = Pressed
        is_ctrl == control_key(self.modifier_state)
        key     == winit_to_egui_key_code(ev.logical_key)
    IN  IF pressed THEN
            IF is_ctrl /\ is_char(ev.logical_key, Str_c) THEN push(self, Copy)
            ELSE IF is_ctrl /\ is_char(ev.logical_key, Str_x) THEN push(self, Cut)
            ELSE IF is_ctrl /\ is_char(ev.logical_key, Str_v) THEN
                IF has_clipboard /\ IsOk(clip_read)
                THEN LET filtered == filter_printable(Unwrap(clip_read))
                     IN  IF filtered # <<>> THEN push(self, Text(filtered)) ELSE self
                ELSE self
            ELSE IF IsSome(key) THEN
                push(self, Key(Unwrap(key), ev.state = Pressed,
                               winit_to_egui_modifiers(self.modifier_state, macos)))
            ELSE self
        ELSE self

\* ModifiersChanged starting the pending input afresh
on_ModifiersChanged_resets_input(self, ev) ==
    [self EXCEPT !.modifier_state = ev.state,
                 !.raw_input.events = <<>>,
                 !.raw_input.scroll_delta = Zero2]

\* ModifiersChanged(input)
on_ModifiersChanged(self, ev) == [self EXCEPT !.modifier_state = ev.state]

\* KeyboardInput { event, .. }, first statement: if pressed { .. }
\* has_clipboard: the clipboard feature is built in and self.clipboard is Some;
\* clip_read: what clipboard.get_contents() returns if it is called
on_KeyboardInput_pressed(self, ev, has_clipboard, clip_read, macos) ==
    LET pressed == ev.state = Pressed
        is_ctrl == control_key(self.modifier_state)
        key     == winit_to_egui_key_code(ev.logical_key)
    IN  IF pressed THEN
            IF is_ctrl /\ is_char(ev.logical_key, Str_c) THEN push(self, Copy)
            ELSE IF is_ctrl /\ is_char(ev.logical_key, Str_x) THEN push(self, Cut)
            ELSE IF is_ctrl /\ is_char(ev.logical_key, Str_v) THEN
                IF has_clipboard /\ IsOk(clip_read)
                THEN push(self, Text(Unwrap(clip_read)))
                ELSE self
            ELSE IF IsSome(key) THEN
                push(self, Key(Unwrap(key), ev.state = Pressed,
                               winit_to_egui_modifiers(self.modifier_state, macos)))
            ELSE self
        ELSE self

\* the text statement looking at super only, the ctrl test dropped
on_KeyboardInput_text_ignores_ctrl(self, ev) ==
    IF IsSome(ev.text) THEN
        IF ~super_key(self.modifier_state) THEN
            LET filtered == filter_printable(Unwrap(ev.text))
            IN  IF filtered # <<>> THEN push(self, Text(filtered)) ELSE self
        ELSE self
    ELSE self

\* KeyboardInput { event, .. }, second statement: if let Some(text) = &event.text { .. }
on_KeyboardInput_text(self, ev) ==
    IF IsSome(ev.text) THEN
        IF ~control_key(self.modifier_state) /\ ~super_key(self.modifier_state) THEN
            LET filtered == filter_printable(Unwrap(ev.text))
            IN  IF filtered # <<>> THEN push(self, Text(filtered)) ELSE self
        ELSE self
    ELSE self

\* the two statements of the KeyboardInput arm in the other order
on_KeyboardInput_text_first(self, ev, has_clipboard, clip_read, macos) ==
    on_KeyboardInput_pressed(on_KeyboardInput_text(self, ev),
                             ev, has_clipboard, clip_read, macos)

on_KeyboardInput(self, ev, has_clipboard, clip_read, macos) ==
    on_KeyboardInput_text(
        on_KeyboardInput_pressed(self, ev, has_clipboard, clip_read, macos), ev)

\* the arm reaches clipboard.get_contents(): a ctrl+v press with a clipboard
reads_clipboard(self, ev, has_clipboard) ==
    /\ ev.ev = "WindowEvent"
    /\ ev.type = "KeyboardInput"
    /\ ev.state = Pressed
    /\ control_key(self.modifier_state)
    /\ ~is_char(ev.logical_key, Str_c)
    /\ ~is_char(ev.logical_key, Str_x)
    /\ is_char(ev.logical_key, Str_v)
    /\ has_clipboard

\* the Platform after handle_event(winit_event)
after_handle_event(self, ev, has_clipboard, clip_read, macos) ==
    IF ev.ev = "WindowEvent" THEN
        CASE ev.type = "Resized"            -> on_Resized(self, ev)
          [] ev.type = "ScaleFactorChanged" -> on_ScaleFactorChanged(self, ev)
          [] ev.type = "MouseInput"         -> on_MouseInput(self, ev)
          [] ev.type = "MouseWheel"         -> on_MouseWheel(self, ev)
          [] ev.type = "CursorMoved"        -> on_CursorMoved(self, ev)
          [] ev.type = "CursorLeft"         -> on_CursorLeft(self, ev)
          [] ev.type = "ModifiersChanged"   -> on_ModifiersChanged(self, ev)
          [] ev.type = "KeyboardInput"      ->
                on_KeyboardInput(self, ev, has_clipboard, clip_read, macos)
          [] OTHER -> self
    ELSE self

\* the events a call pushed: the pending events after it, past those before it
Pushed(before, after) == SubSeq(after, Len(before) + 1, Len(after))

LastTwo(s) == IF Len(s) <= 2 THEN s ELSE SubSeq(s, Len(s) - 1, Len(s))

Unit == [kind |-> "unit"]

\* a panic ends the process: no operation runs after it
Alive == ret.kind # "panic"

NoEffects == [clipboard |-> "skipped", browser |-> "skipped", log |-> <<>>]

handle_event(ev, clip_read) ==
    LET new == after_handle_event(Self, ev, build.clipboard /\ clipboard,
                                  clip_read, build.macos)
        out == Pushed(raw_input.events, new.raw_input.events)
    IN  /\ Alive
        /\ scale_factor' = new.scale_factor
        /\ raw_input' = new.raw_input
        /\ modifier_state' = new.modifier_state
        /\ pointer_pos' = new.pointer_pos
        /\ last_op' = [op |-> "handle_event", ev |-> ev,
                        read |-> IF reads_clipboard(Self, ev, build.clipboard /\ clipboard)
                                 THEN Some(clip_read) ELSE Nothing]
        /\ ret' = Unit
        /\ appended' = appended \o out
        /\ ingest_phases' = IF out # <<>> THEN ingest_phases \cup {phase} ELSE ingest_phases
        /\ since_begin' = since_begin \o out
        /\ last_moved' = IF ev.type = "CursorMoved"
                         THEN Some([x |-> ev.x, y |-> ev.y, scale_factor |-> scale_factor])
                         ELSE last_moved
        /\ window_wheels' = IF ev.type = "MouseWheel"
                            THEN LastTwo(Append(window_wheels, ev.delta))
                            ELSE window_wheels
        /\ UNCHANGED <<clipboard, context, build, constructed_from, last_delivered_time, effects, phase, delivered>>

----------------------------------------------------------------------------
(* The other operations *)


\* captures_event asking wants_pointer_input for CursorMoved as well
captures_moved_as_pointer(ctx, ev) ==
    IF ev.ev = "WindowEvent" THEN
        CASE ev.type \in {"KeyboardInput", "ModifiersChanged"} -> ctx.wants_keyboard_input
          [] ev.type \in {"MouseWheel", "MouseInput", "CursorMoved"} ->
                ctx.wants_pointer_input
          [] OTHER -> FALSE
    ELSE FALSE

\* captures_event(winit_event): the bool it returns
captures(ctx, ev) ==
    IF ev.ev = "WindowEvent" THEN
        CASE ev.type \in {"KeyboardInput", "ModifiersChanged"} -> ctx.wants_keyboard_input
          [] ev.type \in {"MouseWheel", "MouseInput"} -> ctx.wants_pointer_input
          [] ev.type = "CursorMoved" -> ctx.is_using_pointer
          [] OTHER -> FALSE
    ELSE FALSE

captures_event(ev) ==
    /\ Alive
    /\ ret' = [kind |-> "bool", val |-> captures(context, ev)]
    /\ last_op' = [op |-> "captures_event", ev |-> ev]
    /\ UNCHANGED <<platform, context, build, constructed_from, last_delivered_time, effects, phase, ingest_phases, appended,
                   delivered, since_begin, last_moved, window_wheels>>

\* update_time keeping a timestamp that is already pending
update_time_keeps_pending(elapsed_seconds) ==
    /\ Alive
    /\ raw_input' = IF IsSome(raw_input.time) THEN raw_input
                    ELSE [raw_input EXCEPT !.time = Some(elapsed_seconds)]
    /\ last_op' = [op |-> "update_time", ev |-> NoEvent,
                    elapsed_seconds |-> elapsed_seconds]
    /\ ret' = Unit
    /\ UNCHANGED <<scale_factor, modifier_state, pointer_pos, clipboard, context, build,
                   constructed_from, last_delivered_time, effects, phase, ingest_phases,
                   appended, delivered, since_begin, last_moved, window_wheels>>

update_time(elapsed_seconds) ==
    /\ Alive
    /\ raw_input' = [raw_input EXCEPT !.time = Some(elapsed_seconds)]
    /\ last_op' = [op |-> "update_time", ev |-> NoEvent,
                    elapsed_seconds |-> elapsed_seconds]
    /\ ret' = Unit
    /\ UNCHANGED <<scale_factor, modifier_state, pointer_pos, clipboard, context, build, constructed_from, last_delivered_time,
                   effects, phase, ingest_phases, appended, delivered, since_begin, last_moved,
                   window_wheels>>

\* self.raw_input.take(): what it returns and what it leaves in self.raw_input.
\* Every egui moves events and scroll_delta out; the Option fields are moved out
\* (Option::take) or copied, depending on the egui the crate is built against.
take(raw, moves_options) ==
    [taken |-> raw,
     left  |-> [events |-> <<>>,
                scroll_delta |-> Zero2,
                screen_rect |-> IF moves_options THEN Nothing ELSE raw.screen_rect,
                pixels_per_point |-> IF moves_options THEN Nothing
                                     ELSE raw.pixels_per_point,
                time |-> IF moves_options THEN Nothing ELSE raw.time]]

\* begin_frame handing the context a clone of raw_input instead of take()
begin_frame_clone ==
    /\ Alive
    /\ raw_input' = raw_input
    /\ context' = [context EXCEPT !.input = Some(raw_input)]
    /\ last_delivered_time' = IF IsSome(raw_input.time) THEN raw_input.time
                              ELSE last_delivered_time
    /\ delivered' = delivered \o raw_input.events
    /\ since_begin' = <<>>
    /\ phase' = IF phase \in {"begun", "begun_twice"} THEN "begun_twice" ELSE "begun"
    /\ window_wheels' = <<>>
    /\ last_op' = [op |-> "begin_frame", ev |-> NoEvent]
    /\ ret' = Unit
    /\ UNCHANGED <<scale_factor, modifier_state, pointer_pos, clipboard, build, constructed_from,
                   effects, ingest_phases, appended, last_moved>>

begin_frame ==
    LET t == take(raw_input, build.take_moves_options)
    IN  /\ Alive
        /\ raw_input' = t.left
        /\ context' = [context EXCEPT !.input = Some(t.taken)]
        /\ last_delivered_time' = IF IsSome(t.taken.time) THEN t.taken.time
                                  ELSE last_delivered_time
        /\ delivered' = delivered \o t.taken.events
        /\ since_begin' = <<>>
        /\ phase' = IF phase \in {"begun", "begun_twice"} THEN "begun_twice" ELSE "begun"
        /\ window_wheels' = <<>>
        /\ last_op' = [op |-> "begin_frame", ev |-> NoEvent]
        /\ ret' = Unit
        /\ UNCHANGED <<scale_factor, modifier_state, pointer_pos, clipboard, build, constructed_from,
                       effects, ingest_phases, appended, last_moved>>

\* handle_clipboard unwrapping the result of set_contents: a failure panics
handle_clipboard_unwrap(output, has_clipboard, set_result) ==
    IF output.copied_text # <<>> THEN
        IF has_clipboard THEN
            IF IsOk(set_result)
            THEN [status |-> "ok", log |-> <<>>, panicked |-> FALSE]
            ELSE [status |-> "err", log |-> <<>>, panicked |-> TRUE]
        ELSE [status |-> "skipped", log |-> <<>>, panicked |-> FALSE]
    ELSE [status |-> "skipped", log |-> <<>>, panicked |-> FALSE]

\* handle_clipboard(output, clipboard); set_result is what set_contents returns
handle_clipboard(output, has_clipboard, set_result) ==
    IF output.copied_text # <<>> THEN
        IF has_clipboard THEN
            IF IsOk(set_result)
            THEN [status |-> "ok", log |-> <<>>, panicked |-> FALSE]
            ELSE [status |-> "err", log |-> <<"Copy/Cut error">>, panicked |-> FALSE]
        ELSE [status |-> "skipped", log |-> <<>>, panicked |-> FALSE]
    ELSE [status |-> "skipped", log |-> <<>>, panicked |-> FALSE]

\* handle_links(output); open_result is what webbrowser::open returns
handle_links(output, open_result) ==
    IF IsSome(output.open_url) THEN
        IF IsOk(open_result)
        THEN [status |-> "ok", log |-> <<>>, panicked |-> FALSE]
        ELSE [status |-> "err", log |-> <<"Failed to open url">>, panicked |-> FALSE]
    ELSE [status |-> "skipped", log |-> <<>>, panicked |-> FALSE]

Skipped == [status |-> "skipped", log |-> <<>>, panicked |-> FALSE]

\* end_frame starting the next frame's input afresh: it drops what is pending
end_frame_resets(parts, wants, set_result, open_result) ==
    /\ Alive
    /\ phase \in {"begun", "begun_twice"}
    /\ raw_input' = [raw_input EXCEPT !.events = <<>>]
    /\ context' = [context EXCEPT !.output = Some(parts),
                                  !.wants_keyboard_input = wants.wants_keyboard_input,
                                  !.wants_pointer_input = wants.wants_pointer_input,
                                  !.is_using_pointer = wants.is_using_pointer]
    /\ effects' = NoEffects
    /\ ret' = [kind |-> "parts", val |-> parts]
    /\ phase' = "ended"
    /\ last_op' = [op |-> "end_frame", ev |-> NoEvent]
    /\ UNCHANGED <<scale_factor, modifier_state, pointer_pos, clipboard, build, constructed_from, last_delivered_time,
                   ingest_phases, appended, delivered, since_begin, last_moved,
                   window_wheels>>

\* parts: what Context::end_frame returns; wants: the context's answers to
\* wants_keyboard_input, wants_pointer_input, is_using_pointer after the frame
end_frame(parts, wants, set_result, open_result) ==
    LET c == IF build.clipboard
             THEN handle_clipboard(parts.output, clipboard, set_result) ELSE Skipped
        l == IF c.panicked THEN Skipped
             ELSE IF build.webbrowser THEN handle_links(parts.output, open_result)
             ELSE Skipped
    IN  /\ Alive
        /\ phase \in {"begun", "begun_twice"}
        /\ context' = [context EXCEPT !.output = Some(parts),
                                      !.wants_keyboard_input = wants.wants_keyboard_input,
                                      !.wants_pointer_input = wants.wants_pointer_input,
                                      !.is_using_pointer = wants.is_using_pointer]
        /\ effects' = [clipboard |-> c.status, browser |-> l.status, log |-> c.log \o l.log]
        /\ ret' = IF c.panicked \/ l.panicked THEN [kind |-> "panic"]
                  ELSE [kind |-> "parts", val |-> parts]
        /\ phase' = "ended"
        /\ last_op' = [op |-> "end_frame", ev |-> NoEvent]
        /\ UNCHANGED <<platform, build, constructed_from, last_delivered_time, ingest_phases, appended, delivered, since_begin,
                       last_moved, window_wheels>>

----------------------------------------------------------------------------
(* Construction *)

Descriptor(w, h, sf) == [physical_width |-> w, physical_height |-> h, scale_factor |-> sf]

\* Platform::new taking the physical size for the logical one
new_undivided(descriptor) ==
    [scale_factor |-> descriptor.scale_factor,
     raw_input |->
        [RawInputDefault EXCEPT
            !.pixels_per_point = Some(descriptor.scale_factor),
            !.screen_rect =
                Some(from_min_size(Zero2,
                     vec2(FracOf(descriptor.physical_width),
                          FracOf(descriptor.physical_height))))],
     modifier_state |-> ModsEmpty,
     pointer_pos |-> Zero2]

\* Platform::new(descriptor): the fields of Self it builds
new(descriptor) ==
    [scale_factor |-> descriptor.scale_factor,
     raw_input |->
        [RawInputDefault EXCEPT
            !.pixels_per_point = Some(descriptor.scale_factor),
            !.screen_rect =
                Some(from_min_size(Zero2,
                     Vec2Div(vec2(FracOf(descriptor.physical_width),
                                  FracOf(descriptor.physical_height)),
                             descriptor.scale_factor)))],
     modifier_state |-> ModsEmpty,
     pointer_pos |-> Zero2]

Build(clipboard_feature, webbrowser_feature, macos, moves_options) ==
    [clipboard |-> clipboard_feature, webbrowser |-> webbrowser_feature,
     macos |-> macos, take_moves_options |-> moves_options]

Wants(k, p, u) ==
    [wants_keyboard_input |-> k, wants_pointer_input |-> p, is_using_pointer |-> u]

\* the state after Platform::new(descriptor) under build b; clipboard_ok says
\* whether ClipboardContext::new() succeeded
InitWith(descriptor, b, clipboard_ok) ==
    LET p == new(descriptor)
    IN  /\ scale_factor = p.scale_factor
        /\ raw_input = p.raw_input
        /\ modifier_state = p.modifier_state
        /\ pointer_pos = p.pointer_pos
        /\ clipboard = (b.clipboard /\ clipboard_ok)
        /\ context = [input |-> Nothing, output |-> Nothing,
                      wants_keyboard_input |-> FALSE, wants_pointer_input |-> FALSE,
                      is_using_pointer |-> FALSE]
        /\ build = b
        /\ constructed_from = descriptor
        /\ last_delivered_time = Nothing
        /\ last_op = [op |-> "new", ev |-> NoEvent]
        /\ ret = Unit
        /\ effects = NoEffects
        /\ phase = "constructed"
        /\ ingest_phases = {}
        /\ appended = <<>>
        /\ delivered = <<>>
        /\ since_begin = <<>>
        /\ last_moved = Nothing
        /\ window_wheels = <<>>

----------------------------------------------------------------------------
(* The frame cycle: events of every pushing kind, interleaved at will with  *)
(* update_time, begin_frame and end_frame                                   *)

Str_a == <<97>>
Ctrl == Mods(FALSE, TRUE, FALSE, FALSE)

FrameEvents ==
    {CursorMoved(4, 2), MouseInput(Pressed, "Left"),
     KeyboardInput(Pressed, NamedKey("Escape"), Nothing), DeviceEvent}

Init ==
    \E moves \in BOOLEAN :
        InitWith(Descriptor(800, 600, FracOf(2)), Build(TRUE, TRUE, FALSE, moves), TRUE)

FrameHandleEvent ==
    /\ Len(appended) < MaxAppended
    /\ \E ev \in FrameEvents : handle_event(ev, Err)
NoOutput == [output |-> [copied_text |-> <<>>, open_url |-> Nothing], shapes |-> <<>>]
FrameEndFrame == end_frame(NoOutput, Wants(FALSE, FALSE, FALSE), Ok("ok"), Ok("ok"))

Next ==
    \/ FrameHandleEvent
    \/ begin_frame
    \/ FrameEndFrame

Spec == Init /\ [][Next]_vars

----------------------------------------------------------------------------
(* The pointer: moves and buttons, a change of scale factor between them,   *)
(* frames begun and ended in between                                        *)

PointerEvents ==
    {CursorMoved(100, 100), CursorMoved(3, 7),
     MouseInput(Pressed, "Left"), MouseInput(Released, "Middle"),
     ScaleFactorChanged(FracOf(1), 800, 600)}

InitPointer ==
    InitWith(Descriptor(800, 600, FracOf(2)), Build(TRUE, TRUE, FALSE, TRUE), TRUE)

PointerHandleEvent ==
    /\ Len(appended) < MaxPointerPushes
    /\ \E ev \in PointerEvents : handle_event(ev, Err)

NextPointer ==
    \/ PointerHandleEvent
    \/ begin_frame
    \/ FrameEndFrame

SpecPointer == InitPointer /\ [][NextPointer]_vars

----------------------------------------------------------------------------
(* The wheel: line and pixel deltas, frames begun and ended in between *)

WheelEvents ==
    {MouseWheel(LineDelta(1, -2)), MouseWheel(LineDelta(0, 3)),
     MouseWheel(PixelDelta(5, 7)), MouseWheel(PixelDelta(24, -48))}

InitWheel ==
    InitWith(Descriptor(800, 600, FracOf(2)), Build(TRUE, TRUE, FALSE, TRUE), TRUE)

WheelHandleEvent == \E ev \in WheelEvents : handle_event(ev, Err)

NextWheel ==
    \/ WheelHandleEvent
    \/ begin_frame
    \/ FrameEndFrame

SpecWheel == InitWheel /\ [][NextWheel]_vars

----------------------------------------------------------------------------
(* The screen rectangle: resizes and changes of scale factor in any order   *)

ResizeEvents ==
    {Resized(800, 600), Resized(3, 5), Resized(0, 0),
     ScaleFactorChanged(FracOf(1), 1024, 768),
     ScaleFactorChanged(Frac(3, 2), 5, 7)}

InitResize ==
    \E moves \in BOOLEAN :
        InitWith(Descriptor(800, 600, FracOf(2)), Build(TRUE, TRUE, FALSE, moves), TRUE)

ResizeHandleEvent == \E ev \in ResizeEvents : handle_event(ev, Err)

NextResize ==
    \/ ResizeHandleEvent
    \/ begin_frame
    \/ FrameEndFrame

SpecResize == InitResize /\ [][NextResize]_vars

----------------------------------------------------------------------------
(* The keyboard: modifier changes and key events, pressed and released,     *)
(* with and without decoded text, with and without a clipboard              *)

Super == Mods(FALSE, FALSE, FALSE, TRUE)
Str_C == <<67>>
Str_p == <<112>>

KeyModifiers == {ModsEmpty, Ctrl, Super}

Keys ==
    {Character(Str_c), Character(Str_C), Character(Str_x), Character(Str_v),
     Character(Str_a), NamedKey("F1")}

KeyEvents ==
    {ModifiersChanged(m) : m \in KeyModifiers}
    \cup {KeyboardInput(st, k, t) :
            st \in {Pressed, Released}, k \in Keys, t \in {Nothing, Some(Str_c)}}

\* the crate built without the clipboard feature, or with it and
\* ClipboardContext::new() having failed or succeeded
InitKeyboard ==
    \E feature \in BOOLEAN, clipboard_ok \in BOOLEAN :
        /\ clipboard_ok => feature
        /\ InitWith(Descriptor(800, 600, FracOf(2)),
                    Build(feature, TRUE, FALSE, TRUE), clipboard_ok)

KeyboardHandleEvent ==
    /\ Len(appended) < MaxKeyPushes
    /\ \E ev \in KeyEvents, clip_read \in {Err, Ok(Str_p)} : handle_event(ev, clip_read)

NextKeyboard ==
    \/ KeyboardHandleEvent
    \/ begin_frame

SpecKeyboard == InitKeyboard /\ [][NextKeyboard]_vars

----------------------------------------------------------------------------
(* Decoded text: one key event carrying any string of up to MaxTextLen      *)
(* characters, drawn from both sides of every boundary is_printable tests   *)

TextChars ==
    {0, 31, 32, 97, 126, 127, 128,
     57343, 57344, 63743, 63744,
     983039, 983040, 1048573, 1048574,
     1048575, 1048576, 1114109, 1114110}

Texts == UNION {[1..n -> TextChars] : n \in 1..MaxTextLen}

Shift == Mods(FALSE, FALSE, TRUE, FALSE)

TextModifiers == {ModsEmpty, Shift, Ctrl, Super}

InitText ==
    InitWith(Descriptor(800, 600, FracOf(2)), Build(TRUE, TRUE, FALSE, TRUE), TRUE)

TextModifiersChanged == \E m \in TextModifiers : handle_event(ModifiersChanged(m), Err)

\* key events come one at a time, until one of them has pushed
TextHandleEvent ==
    /\ appended = <<>>
    /\ last_op.ev.type # "KeyboardInput"
    /\ \E st \in {Pressed, Released}, k \in {Character(Str_a), NamedKey("F1")},
          t \in Texts :
            handle_event(KeyboardInput(st, k, Some(t)), Err)

NextText ==
    \/ TextModifiersChanged
    \/ TextHandleEvent
    \/ begin_frame

SpecText == InitText /\ [][NextText]_vars

----------------------------------------------------------------------------
(* The output side: what the context returns from end_frame and answers to  *)
(* captures_event, with clipboard writes and URL opens that succeed or fail *)

OutputEvents == {CursorMoved(100, 100)}

Parts(copied_text, open_url, shapes) ==
    [output |-> [copied_text |-> copied_text, open_url |-> open_url], shapes |-> shapes]

OutputParts ==
    {Parts(<<>>, Nothing, <<>>), Parts(Str_a, Nothing, <<"shape">>),
     Parts(<<>>, Some("url"), <<"shape">>), Parts(Str_a, Some("url"), <<"shape">>)}

OutputWants ==
    {Wants(FALSE, FALSE, FALSE), Wants(TRUE, FALSE, FALSE),
     Wants(FALSE, TRUE, FALSE), Wants(FALSE, FALSE, TRUE)}

\* one event of every kind captures_event tells apart, and of some it does not
CaptureEvents ==
    {KeyboardInput(Pressed, Character(Str_a), Nothing), ModifiersChanged(Ctrl),
     MouseWheel(LineDelta(0, 1)), MouseInput(Pressed, "Left"), CursorMoved(100, 100),
     Resized(800, 600), ScaleFactorChanged(FracOf(1), 800, 600), CursorLeft,
     OtherWindowEvent("Focused"), DeviceEvent, OtherEvent("MainEventsCleared")}

\* built with both features and a clipboard handle, with both and none, or
\* with neither feature
InitOutput ==
    \E b \in {<<TRUE, TRUE>>, <<TRUE, FALSE>>, <<FALSE, FALSE>>} :
        InitWith(Descriptor(800, 600, FracOf(2)),
                 Build(b[1], b[1], FALSE, TRUE), b[2])

OutputHandleEvent ==
    /\ Len(appended) < MaxOutputPushes
    /\ \E ev \in OutputEvents : handle_event(ev, Err)

OutputEndFrame ==
    \E parts \in OutputParts, wants \in OutputWants,
       set_result \in {Ok("set"), Err}, open_result \in {Ok("opened"), Err} :
        end_frame(parts, wants, set_result, open_result)

OutputCapturesEvent == \E ev \in CaptureEvents : captures_event(ev)

NextOutput ==
    \/ OutputHandleEvent
    \/ begin_frame
    \/ OutputEndFrame
    \/ OutputCapturesEvent

SpecOutput == InitOutput /\ [][NextOutput]_vars

----------------------------------------------------------------------------
(* Construction: several descriptors, then frames and a few events          *)

InitConstruct ==
    \E d \in {Descriptor(800, 600, FracOf(2)), Descriptor(1024, 768, FracOf(1)),
              Descriptor(3, 5, Frac(3, 2)), Descriptor(0, 0, FracOf(3))},
       moves \in BOOLEAN :
        InitWith(d, Build(TRUE, TRUE, FALSE, moves), TRUE)

ConstructHandleEvent ==
    /\ Len(appended) < MaxConstructPushes
    /\ \E ev \in {Resized(3, 5), CursorMoved(100, 100)} : handle_event(ev, Err)

NextConstruct ==
    \/ ConstructHandleEvent
    \/ begin_frame
    \/ FrameEndFrame

SpecConstruct == InitConstruct /\ [][NextConstruct]_vars

----------------------------------------------------------------------------
(* Modifiers and keys: modifier changes before and after key presses, on    *)
(* either target_os, frames begun and ended in between                      *)

InitModifiers ==
    \E macos \in BOOLEAN :
        InitWith(Descriptor(800, 600, FracOf(2)), Build(TRUE, TRUE, macos, TRUE), TRUE)

ModifiersModifiersChanged ==
    \E m \in {ModsEmpty, Shift, Ctrl, Super} : handle_event(ModifiersChanged(m), Err)

ModifiersKeyboardInput ==
    /\ Len(appended) < MaxModifierPushes
    /\ \E k \in {Character(Str_a), NamedKey("Escape"), NamedKey("F1")} :
          handle_event(KeyboardInput(Pressed, k, Nothing), Err)

NextModifiers ==
    \/ ModifiersModifiersChanged
    \/ ModifiersKeyboardInput
    \/ begin_frame
    \/ FrameEndFrame

SpecModifiers == InitModifiers /\ [][NextModifiers]_vars

----------------------------------------------------------------------------
(* The scenarios below start from one Platform: 800 x 600 at scale factor   *)
(* 2, every feature built in, a clipboard at hand                           *)

InitPlain ==
    InitWith(Descriptor(800, 600, FracOf(2)), Build(TRUE, TRUE, FALSE, TRUE), TRUE)

UpdateTimeOnce == update_time(FracOf(1))

----------------------------------------------------------------------------
(* Keys with decoded text: mapped and unmapped keys, pressed and released,  *)
(* with and without text, under no modifier, shift, ctrl and super          *)

KeyTextKeyboardInput ==
    /\ Len(appended) < MaxKeyTextPushes
    /\ \E st \in {Pressed, Released},
          k \in {Character(Str_a), Character(Str_v), NamedKey("F1")},
          t \in {Nothing, Some(Str_c)},
          clip_read \in {Err, Ok(Str_p)} :
            handle_event(KeyboardInput(st, k, t), clip_read)

NextKeyText ==
    \/ ModifiersModifiersChanged
    \/ KeyTextKeyboardInput
    \/ begin_frame

SpecKeyText == InitPlain /\ [][NextKeyText]_vars

----------------------------------------------------------------------------
(* Paste: ctrl+v with a clipboard whose read fails, or succeeds with empty, *)
(* printable or unprintable contents                                        *)

PasteHandleEvent ==
    /\ Len(appended) < MaxPastePushes
    /\ \E ev \in {ModifiersChanged(ModsEmpty), ModifiersChanged(Ctrl)}
                 \cup {KeyboardInput(Pressed, k, t) :
                          k \in {Character(Str_v), Character(<<86>>)},
                          t \in {Nothing, Some(Str_v)}},
          clip_read \in {Err, Ok(<<>>), Ok(Str_p), Ok(<<10, 112, 57344>>)} :
            handle_event(ev, clip_read)

NextPaste ==
    \/ PasteHandleEvent
    \/ begin_frame

SpecPaste == InitPlain /\ [][NextPaste]_vars

----------------------------------------------------------------------------
(* Buttons: every button pressed and released under every modifier state,   *)
(* the pointer moved in between                                             *)

ButtonsHandleEvent ==
    /\ Len(appended) < MaxButtonPushes
    /\ \E ev \in {CursorMoved(100, 100)}
                 \cup {ModifiersChanged(m) : m \in {ModsEmpty, Ctrl, Shift}}
                 \cup {MouseInput(st, b) :
                          st \in {Pressed, Released},
                          b \in {"Left", "Right", "Middle", "Other"}} :
            handle_event(ev, Err)

NextButtons ==
    \/ ButtonsHandleEvent
    \/ begin_frame

SpecButtons == InitPlain /\ [][NextButtons]_vars

----------------------------------------------------------------------------
(* Bookkeeping: the events that push nothing, handled while an event, a     *)
(* scroll delta and a timestamp are pending                                 *)

BookkeepingCursorMoved ==
    /\ Len(appended) < MaxBookkeepingPushes
    /\ handle_event(CursorMoved(100, 100), Err)

BookkeepingHandleEvent ==
    \E ev \in {ModifiersChanged(ModsEmpty), ModifiersChanged(Ctrl),
               Resized(3, 5), ScaleFactorChanged(FracOf(1), 1024, 768),
               MouseWheel(LineDelta(1, -1))} :
        handle_event(ev, Err)

NextBookkeeping ==
    \/ BookkeepingCursorMoved
    \/ BookkeepingHandleEvent
    \/ UpdateTimeOnce
    \/ begin_frame

SpecBookkeeping == InitPlain /\ [][NextBookkeeping]_vars

----------------------------------------------------------------------------
(* Ignored events: device events, events of no window, window events the    *)
(* code has no arm for, Other(..) buttons and keys outside the key table,   *)
(* handled while input is pending                                           *)

IgnoredCursorMoved ==
    /\ Len(appended) < MaxIgnoredPushes
    /\ handle_event(CursorMoved(100, 100), Err)

IgnoredHandleEvent ==
    \E ev \in {DeviceEvent, OtherEvent("MainEventsCleared"),
               OtherWindowEvent("Focused"), MouseInput(Pressed, "Other"),
               ModifiersChanged(ModsEmpty), ModifiersChanged(Ctrl)} :
        handle_event(ev, Err)

IgnoredKeyboardInput ==
    /\ Len(appended) < MaxIgnoredPushes
    /\ \E k \in {NamedKey("F1"), Character(Str_c), Character(Str_v)},
          clip_read \in {Err, Ok(Str_p)} :
            handle_event(KeyboardInput(Pressed, k, Nothing), clip_read)

NextIgnored ==
    \/ IgnoredCursorMoved
    \/ IgnoredHandleEvent
    \/ IgnoredKeyboardInput
    \/ UpdateTimeOnce
    \/ begin_frame

SpecIgnored == InitPlain /\ [][NextIgnored]_vars

----------------------------------------------------------------------------
(* Time: update_time called never, once or several times before a frame,    *)
(* with an egui whose RawInput::take moves the Option fields out            *)

TimeUpdateTime == \E t \in {FracOf(1), FracOf(2)} : update_time(t)

TimeHandleEvent ==
    /\ Len(appended) < MaxTimePushes
    /\ handle_event(CursorMoved(100, 100), Err)

NextTime ==
    \/ TimeUpdateTime
    \/ TimeHandleEvent
    \/ begin_frame
    \/ FrameEndFrame

SpecTime == InitPlain /\ [][NextTime]_vars

----------------------------------------------------------------------------
(* Scale factors: any f64 the caller puts in the descriptor or in a         *)
(* ScaleFactorChanged event, the negative ones included                     *)

InitScale ==
    \E d \in {Descriptor(800, 600, FracOf(2)), Descriptor(800, 600, FracOf(-1))} :
        InitWith(d, Build(TRUE, TRUE, FALSE, TRUE), TRUE)

ScaleHandleEvent ==
    \E ev \in {ScaleFactorChanged(FracOf(1), 1024, 768),
               ScaleFactorChanged(Frac(-3, 2), 1024, 768)} :
        handle_event(ev, Err)

ScaleCursorMoved ==
    /\ Len(appended) < MaxScalePushes
    /\ handle_event(CursorMoved(100, 100), Err)

NextScale ==
    \/ ScaleHandleEvent
    \/ ScaleCursorMoved
    \/ UpdateTimeOnce
    \/ begin_frame
    \/ FrameEndFrame

SpecScale == InitScale /\ [][NextScale]_vars

----------------------------------------------------------------------------
(* The pointer position: moves, buttons, the pointer leaving, resizes and    *)
(* changes of scale factor in any order, frames begun and ended in between  *)

PositionPushingHandleEvent ==
    /\ Len(appended) < MaxPositionPushes
    /\ \E ev \in {CursorMoved(100, 100), CursorLeft, MouseInput(Pressed, "Left")} :
          handle_event(ev, Err)

PositionHandleEvent ==
    \E ev \in {ScaleFactorChanged(FracOf(1), 800, 600), Resized(3, 5)} :
        handle_event(ev, Err)

NextPosition ==
    \/ PositionPushingHandleEvent
    \/ PositionHandleEvent
    \/ begin_frame
    \/ FrameEndFrame

SpecPosition == InitPlain /\ [][NextPosition]_vars

----------------------------------------------------------------------------
(* Properties *)

\* C1: begin_frame hands the context exactly the events pushed by the
\* handle_event calls since the previous begin_frame (or since construction),
\* in the order they were pushed, and leaves no pending event behind.
C1_BeginFrameHandsOverPending ==
    [][last_op'.op = "begin_frame" =>
          /\ IsSome(context'.input)
          /\ Unwrap(context'.input).events = since_begin
          /\ Len(raw_input'.events) = 0]_vars

C1_Witness ==
    /\ last_op.op = "begin_frame"
    /\ Len(Unwrap(context.input).events) >= 2
    /\ Len(delivered) > Len(Unwrap(context.input).events)
    /\ raw_input.events = <<>>

\* C2: whatever the phase of the frame cycle an event is pushed in, the events
\* handed to the context so far followed by the pending ones are exactly the
\* events pushed so far, each once and in order; right after a begin_frame
\* nothing is pending, so each event went out with the first begin_frame after it.
C2_EveryEventDeliveredOnce ==
    /\ delivered \o raw_input.events = appended
    /\ last_op.op = "begin_frame" => Len(delivered) = Len(appended)

\* one event pushed before the first frame, one between end_frame and
\* begin_frame, one between two begin_frame calls with no end_frame, all delivered
C2_Witness ==
    /\ last_op.op = "begin_frame"
    /\ phase = "begun_twice"
    /\ ingest_phases = {"constructed", "ended", "begun"}
    /\ Len(delivered) = Len(appended)

\* the rational q is n divided by the rational f
IsQuotient(q, n, f) == q[1] * f[1] = n * f[2] * q[2]

\* C3: the PointerButton pushed for a Left, Right or Middle MouseInput carries
\* the position of the latest CursorMoved ever handled, divided by the scale
\* factor stored when it was handled, or the origin if there was none; and
\* begin_frame and end_frame leave the stored pointer position alone.
C3_ButtonCarriesLastPointerPos ==
    [][/\ (/\ last_op'.op = "handle_event"
           /\ last_op'.ev.type = "MouseInput"
           /\ last_op'.ev.button \in {"Left", "Right", "Middle"})
          => /\ Len(raw_input'.events) = Len(raw_input.events) + 1
             /\ LET e == raw_input'.events[Len(raw_input'.events)]
                IN  /\ e.type = "PointerButton"
                    /\ IF IsSome(last_moved')
                       THEN LET m == Unwrap(last_moved')
                            IN  /\ IsQuotient(e.pos.x, m.x, m.scale_factor)
                                /\ IsQuotient(e.pos.y, m.y, m.scale_factor)
                       ELSE e.pos.x = <<0, 1>> /\ e.pos.y = <<0, 1>>
       /\ last_op'.op \in {"begin_frame", "end_frame"} => pointer_pos' = pointer_pos]_vars

\* two moves in an earlier frame under scale factor 2, the scale factor changed,
\* a frame begun and ended, then the button: it carries (3/2, 7/2)
C3_Witness ==
    /\ last_op.op = "handle_event"
    /\ last_op.ev = MouseInput(Pressed, "Left")
    /\ phase = "ended"
    /\ delivered = <<PointerMoved(pos2(<<50, 1>>, <<50, 1>>)),
                     PointerMoved(pos2(<<3, 2>>, <<7, 2>>))>>
    /\ scale_factor = <<1, 1>>
    /\ raw_input.events =
         <<PointerButton(pos2(<<3, 2>>, <<7, 2>>), "Primary", TRUE, EguiModsDefault)>>

\* what one wheel event contributes: lines times 24, pixels as they are
WheelContribution(d) ==
    IF d.unit = "LineDelta" THEN vec2(<<24 * d.x, 1>>, <<24 * d.y, 1>>)
    ELSE vec2(<<d.x, 1>>, <<d.y, 1>>)

\* C4: after a MouseWheel the pending scroll delta is that event's own
\* contribution, whatever wheel events came before it since the last
\* begin_frame; begin_frame hands the context the last one's contribution.
C4_ScrollDeltaIsLastWheel ==
    [][/\ window_wheels' # <<>> =>
             raw_input'.scroll_delta = WheelContribution(window_wheels'[Len(window_wheels')])
       /\ (last_op'.op = "begin_frame" /\ window_wheels # <<>>) =>
             /\ IsSome(context'.input)
             /\ Unwrap(context'.input).scroll_delta =
                    WheelContribution(window_wheels[Len(window_wheels)])]_vars

C4_Witness ==
    /\ last_op.op = "handle_event"
    /\ window_wheels = <<LineDelta(1, -2), PixelDelta(5, 7)>>
    /\ raw_input.scroll_delta = vec2(<<5, 1>>, <<7, 1>>)
    /\ Len(delivered) = 0 /\ phase = "ended"

RectSize(r) == vec2(FracSub(r.max.x, r.min.x), FracSub(r.max.y, r.min.y))

\* the pending screen rectangle starts at the origin and measures (w, h) / f
ScreenRectIs(w, h, f) ==
    /\ IsSome(raw_input.screen_rect)
    /\ LET r == Unwrap(raw_input.screen_rect)
       IN  /\ r.min.x = <<0, 1>> /\ r.min.y = <<0, 1>>
           /\ IsQuotient(RectSize(r).x, w, f)
           /\ IsQuotient(RectSize(r).y, h, f)

\* C7: right after a Resized the pending screen rectangle is the new size
\* divided by the stored scale factor, at the origin; right after a
\* ScaleFactorChanged the stored factor is the new one and the rectangle is the
\* new inner size divided by it.
C7_ScreenRectIsSizeOverScale ==
    /\ (last_op.op = "handle_event" /\ last_op.ev.type = "Resized") =>
           ScreenRectIs(last_op.ev.width, last_op.ev.height, scale_factor)
    /\ (last_op.op = "handle_event" /\ last_op.ev.type = "ScaleFactorChanged") =>
           /\ scale_factor = last_op.ev.scale_factor
           /\ ScreenRectIs(last_op.ev.width, last_op.ev.height, last_op.ev.scale_factor)

\* a resize to (3, 5) after the scale factor became 3/2: the rectangle is (2, 10/3)
C7_Witness ==
    /\ last_op.op = "handle_event"
    /\ last_op.ev = Resized(3, 5)
    /\ scale_factor = <<3, 2>>
    /\ raw_input.screen_rect =
         Some([min |-> Zero2, max |-> pos2(<<2, 1>>, <<10, 3>>)])
    /\ phase = "ended"

\* the events the step pushed
StepPushed == Pushed(raw_input.events, raw_input'.events)

IsKeyboardStep == last_op'.op = "handle_event" /\ last_op'.ev.type = "KeyboardInput"

\* C5: a press of c, x or v in either case while ctrl is held pushes no Key
\* event, with or without decoded text: c pushes exactly Copy, x exactly Cut,
\* v without a clipboard handle nothing.
C5_CtrlCXVShortCircuit ==
    [][LET ev == last_op'.ev
           k == ev.logical_key
       IN  (/\ IsKeyboardStep
            /\ ev.state = Pressed
            /\ modifier_state.ctrl
            /\ k.named = "Character"
            /\ k.character \in {<<99>>, <<67>>, <<120>>, <<88>>, <<118>>, <<86>>})
           => /\ \A i \in 1..Len(StepPushed) : StepPushed[i].type # "Key"
              /\ k.character \in {<<99>>, <<67>>} => StepPushed = <<Copy>>
              /\ k.character \in {<<120>>, <<88>>} => StepPushed = <<Cut>>
              /\ (k.character \in {<<118>>, <<86>>} /\ ~clipboard) => StepPushed = <<>>]_vars

\* ctrl held, then C pressed with the decoded text "c": Copy and nothing else
C5_Witness ==
    /\ last_op.op = "handle_event"
    /\ last_op.ev = KeyboardInput(Pressed, Character(Str_C), Some(Str_c))
    /\ modifier_state = Ctrl
    /\ appended = <<Copy>>
    /\ raw_input.events = <<Copy>>

\* C6: a KeyboardInput whose state is Released pushes nothing, whatever the
\* key, the modifiers and the decoded text.
C6_ReleasePushesNothing ==
    [][(IsKeyboardStep /\ last_op'.ev.state = Released)
          => raw_input'.events = raw_input.events]_vars

\* a character the claim lets through: no ASCII control character, none of
\* U+E000..U+F8FF, U+F0000..U+FFFFD, U+100000..U+10FFFD
Survives(ch) ==
    /\ ~(ch \in 0..31 \/ ch = 127)
    /\ ch \notin 57344..63743
    /\ ch \notin 983040..1048573
    /\ ch \notin 1048576..1114109

IsText(e) == e.type = "Text"

\* C8: a key event with decoded text, neither ctrl nor super held, pushes one
\* Text event made of the surviving characters in their order, as the last
\* event of the call, or no Text event when no character survives.
C8_TextIsFiltered ==
    [][LET ev == last_op'.ev
       IN  (/\ IsKeyboardStep
            /\ IsSome(ev.text)
            /\ ~modifier_state.ctrl /\ ~modifier_state.super)
           => LET kept == SelectSeq(Unwrap(ev.text), Survives)
                  texts == SelectSeq(StepPushed, IsText)
              IN  /\ kept = <<>> => texts = <<>>
                  /\ kept # <<>> =>
                        /\ texts = <<Text(kept)>>
                        /\ StepPushed[Len(StepPushed)] = Text(kept)]_vars

\* "a" between DEL and U+F8FF: the Text pushed is "a"
C8_Witness ==
    /\ last_op.op = "handle_event"
    /\ last_op.ev = KeyboardInput(Pressed, NamedKey("F1"), Some(<<127, 97>>))
    /\ modifier_state = Shift
    /\ raw_input.events = <<Text(<<97>>)>>

\* C9: end_frame returns the pair the context produced, whether the clipboard
\* write and the URL open succeed, fail or are skipped; it does not panic and
\* it leaves the pending input, the pointer position, the modifier state and
\* the scale factor as they were.
C9_EndFrameReturnsParts ==
    [][last_op'.op = "end_frame" =>
          /\ ret'.kind = "parts"
          /\ IsSome(context'.output)
          /\ ret'.val = Unwrap(context'.output)
          /\ UNCHANGED <<raw_input, pointer_pos, modifier_state, scale_factor>>]_vars

\* both side effects failed, an event is pending, and the pair came back
C9_Witness ==
    /\ last_op.op = "end_frame"
    /\ effects.clipboard = "err"
    /\ effects.browser = "err"
    /\ ret.kind = "parts"
    /\ ret.val.output.copied_text = Str_a
    /\ ret.val.shapes = <<"shape">>
    /\ raw_input.events # <<>>

\* the answer the claim gives for an event
ExpectedCapture(ev) ==
    IF ev.ev = "WindowEvent" /\ ev.type \in {"KeyboardInput", "ModifiersChanged"}
        THEN context.wants_keyboard_input
    ELSE IF ev.ev = "WindowEvent" /\ ev.type \in {"MouseWheel", "MouseInput"}
        THEN context.wants_pointer_input
    ELSE IF ev.ev = "WindowEvent" /\ ev.type = "CursorMoved"
        THEN context.is_using_pointer
    ELSE FALSE

\* C10: captures_event answers wants_keyboard_input for KeyboardInput and
\* ModifiersChanged, wants_pointer_input for MouseWheel and MouseInput,
\* is_using_pointer for CursorMoved and false for everything else, and
\* changes nothing of the Platform or the context.
C10_CapturesEventMapping ==
    [][last_op'.op = "captures_event" =>
          /\ ret'.kind = "bool"
          /\ ret'.val = ExpectedCapture(last_op'.ev)
          /\ UNCHANGED <<platform, context>>]_vars

\* the context is using the pointer but does not want pointer input:
\* CursorMoved is captured
C10_Witness ==
    /\ last_op.op = "captures_event"
    /\ last_op.ev.type = "CursorMoved"
    /\ ret.val = TRUE
    /\ ~context.wants_pointer_input
    /\ raw_input.events # <<>>

\* the RawInput r holds what construction from descriptor d puts there
IsConstructedInput(r, d) ==
    /\ r.events = <<>>
    /\ r.scroll_delta = Zero2
    /\ r.time = Nothing
    /\ r.pixels_per_point = Some(d.scale_factor)
    /\ IsSome(r.screen_rect)
    /\ LET rect == Unwrap(r.screen_rect)
       IN  /\ rect.min.x = <<0, 1>> /\ rect.min.y = <<0, 1>>
           /\ IsQuotient(RectSize(rect).x, d.physical_width, d.scale_factor)
           /\ IsQuotient(RectSize(rect).y, d.physical_height, d.scale_factor)

\* C11: right after construction from (w, h, s) the pending screen rectangle
\* is (w/s, h/s) at the origin, pixels-per-point is s, the pointer position is
\* the origin, the modifier state is empty and no event is pending; a
\* begin_frame that comes first hands the context exactly these values.
C11_ConstructionValues ==
    /\ (last_op.op = "new" =>
          /\ IsConstructedInput(raw_input, constructed_from)
          /\ scale_factor = constructed_from.scale_factor
          /\ pointer_pos.x = <<0, 1>> /\ pointer_pos.y = <<0, 1>>
          /\ modifier_state = Mods(FALSE, FALSE, FALSE, FALSE))
    /\ [][(last_op.op = "new" /\ last_op'.op = "begin_frame") =>
              /\ IsSome(context'.input)
              /\ IsConstructedInput(Unwrap(context'.input), constructed_from)]_vars

\* (800, 600) at scale factor 2: the first frame gets (400, 300) and 2
C11_Witness ==
    /\ last_op.op = "begin_frame"
    /\ phase = "begun"
    /\ appended = <<>>
    /\ constructed_from = Descriptor(800, 600, <<2, 1>>)
    /\ context.input =
         Some([events |-> <<>>, scroll_delta |-> Zero2, time |-> Nothing,
               pixels_per_point |-> Some(<<2, 1>>),
               screen_rect |-> Some([min |-> Zero2,
                                     max |-> pos2(<<400, 1>>, <<300, 1>>)])])

\* the flags a Key event carries for the host modifier state m
KeyFlags(m) ==
    [alt |-> alt_key(m), ctrl |-> control_key(m), shift |-> shift_key(m),
     mac_cmd |-> build.macos /\ super_key(m),
     command |-> IF build.macos THEN super_key(m) ELSE control_key(m)]

IsPrefix(s, t) == Len(s) <= Len(t) /\ SubSeq(t, 1, Len(s)) = s

\* C12: the Key event of a mapped key press carries the flags of the latest
\* ModifiersChanged handled before it (none: the empty state); the stored
\* modifier state is written by ModifiersChanged alone, so begin_frame and
\* end_frame keep it, and no handle_event alters an event already pending.
C12_KeyCarriesModifiersAtIngestion ==
    /\ (last_op.op = "new" => modifier_state = Mods(FALSE, FALSE, FALSE, FALSE))
    /\ [][/\ (last_op'.op = "handle_event" /\ last_op'.ev.type = "ModifiersChanged")
                => modifier_state' = last_op'.ev.state
          /\ ~(last_op'.op = "handle_event" /\ last_op'.ev.type = "ModifiersChanged")
                => modifier_state' = modifier_state
          /\ last_op'.op = "handle_event"
                => IsPrefix(raw_input.events, raw_input'.events)
          /\ (/\ last_op'.op = "handle_event"
              /\ last_op'.ev.type = "KeyboardInput"
              /\ last_op'.ev.state = Pressed
              /\ IsSome(winit_to_egui_key_code(last_op'.ev.logical_key)))
                => /\ StepPushed # <<>>
                   /\ Head(StepPushed) =
                        [type |-> "Key",
                         key |-> Unwrap(winit_to_egui_key_code(last_op'.ev.logical_key)),
                         pressed |-> TRUE,
                         modifiers |-> KeyFlags(modifier_state)]]_vars

\* a key pressed under ctrl, the modifiers released afterwards, and the frame
\* that followed got the Key event with ctrl set
C12_Witness ==
    /\ modifier_state = Mods(FALSE, FALSE, FALSE, FALSE)
    /\ phase = "ended"
    /\ delivered # <<>>
    /\ delivered[1].type = "Key"
    /\ delivered[1].modifiers.ctrl

\* C13: a press of a mapped key with printable decoded text pushes the Key
\* event and then the Text event when neither ctrl nor super is held, the Key
\* event alone when super is held without ctrl; and with ctrl held no key
\* event, of any key, gets its decoded text pushed: the only Text then is the
\* clipboard's, for a ctrl+v press.
C13_KeyThenText ==
    [][(IsKeyboardStep /\ IsSome(last_op'.ev.text)) =>
        LET ev       == last_op'.ev
            key      == winit_to_egui_key_code(ev.logical_key)
            filtered == filter_printable(Unwrap(ev.text))
            KeyEvent == [type |-> "Key", key |-> Unwrap(key), pressed |-> TRUE,
                         modifiers |-> KeyFlags(modifier_state)]
            TextEvent == [type |-> "Text", text |-> filtered]
        IN  /\ (/\ ev.state = Pressed /\ IsSome(key) /\ filtered # <<>>
                /\ ~control_key(modifier_state) /\ ~super_key(modifier_state))
                  => StepPushed = <<KeyEvent, TextEvent>>
            /\ (/\ ev.state = Pressed /\ IsSome(key)
                /\ ~control_key(modifier_state) /\ super_key(modifier_state))
                  => StepPushed = <<KeyEvent>>
            /\ control_key(modifier_state)
                  => \A i \in 1..Len(StepPushed) :
                        /\ StepPushed[i] # TextEvent
                        /\ StepPushed[i].type = "Text"
                              => ev.state = Pressed /\ is_char(ev.logical_key, Str_v)]_vars

\* 'a' pressed with decoded text and no modifier: Key A, then the Text
C13_Witness ==
    /\ last_op.op = "handle_event"
    /\ last_op.ev = KeyboardInput(Pressed, Character(Str_a), Some(Str_c))
    /\ modifier_state = Mods(FALSE, FALSE, FALSE, FALSE)
    /\ Len(raw_input.events) = 2
    /\ raw_input.events[1].type = "Key"
    /\ raw_input.events[1].key = "A"
    /\ raw_input.events[2] = [type |-> "Text", text |-> Str_c]

\* C14: a ctrl+v press with a clipboard handle calls get_contents once; a
\* successful read pushes exactly one Text event with the contents as they
\* are, empty or unprintable included, and no Key event; a failed read pushes
\* nothing, returns normally and leaves the Platform and the context as they
\* were.
C14_PasteVerbatimOrNothing ==
    [][(/\ IsKeyboardStep
        /\ last_op'.ev.state = Pressed
        /\ control_key(modifier_state)
        /\ is_char(last_op'.ev.logical_key, Str_v)
        /\ build.clipboard /\ clipboard)
       => /\ IsSome(last_op'.read)
          /\ ret' = [kind |-> "unit"]
          /\ IsOk(Unwrap(last_op'.read)) =>
                StepPushed = <<[type |-> "Text", text |-> Unwrap(Unwrap(last_op'.read))]>>
          /\ ~IsOk(Unwrap(last_op'.read)) =>
                /\ platform' = platform
                /\ context' = context]_vars

\* two pastes are pending: one of an empty clipboard, one of contents the
\* printable filter would have cut
C14_Witness ==
    /\ last_op.op = "handle_event"
    /\ last_op.read = Some(Ok(<<10, 112, 57344>>))
    /\ raw_input.events = <<[type |-> "Text", text |-> <<>>],
                            [type |-> "Text", text |-> <<10, 112, 57344>>]>>

\* a ctrl+v press whose clipboard read failed, nothing pending after it
C14_WitnessFailedRead ==
    /\ last_op.op = "handle_event"
    /\ last_op.read = Some(Err)
    /\ raw_input.events = <<>>

\* C15: every PointerButton event handle_event pushes has all modifier flags
\* false, whatever the stored modifier state; a Left, Right or Middle
\* MouseInput pushes exactly one, with button Primary, Secondary or Middle and
\* pressed true exactly for Pressed.
C15_PointerButtonFields ==
    [][last_op'.op = "handle_event" =>
        /\ \A i \in 1..Len(StepPushed) :
              StepPushed[i].type = "PointerButton" =>
                 StepPushed[i].modifiers =
                    [alt |-> FALSE, ctrl |-> FALSE, shift |-> FALSE,
                     mac_cmd |-> FALSE, command |-> FALSE]
        /\ (/\ last_op'.ev.type = "MouseInput"
            /\ last_op'.ev.button \in {"Left", "Right", "Middle"})
              => /\ Len(StepPushed) = 1
                 /\ StepPushed[1].type = "PointerButton"
                 /\ StepPushed[1].button =
                       (CASE last_op'.ev.button = "Left" -> "Primary"
                          [] last_op'.ev.button = "Right" -> "Secondary"
                          [] last_op'.ev.button = "Middle" -> "Middle")
                 /\ StepPushed[1].pressed = (last_op'.ev.state = Pressed)]_vars

\* the right button went down while ctrl was held
C15_Witness ==
    /\ last_op.op = "handle_event"
    /\ last_op.ev = MouseInput(Pressed, "Right")
    /\ control_key(modifier_state)
    /\ raw_input.events # <<>>
    /\ raw_input.events[Len(raw_input.events)].type = "PointerButton"
    /\ raw_input.events[Len(raw_input.events)].button = "Secondary"
    /\ raw_input.events[Len(raw_input.events)].pressed
    /\ ~raw_input.events[Len(raw_input.events)].modifiers.ctrl

\* C16: ModifiersChanged writes the stored modifier state and nothing else:
\* the pending events, scroll delta, screen rectangle, pixels-per-point and
\* time, the pointer position and the scale factor stay as they were; and
\* Resized, ScaleFactorChanged and MouseWheel push no event either.
C16_BookkeepingPushesNothing ==
    [][last_op'.op = "handle_event" =>
        /\ last_op'.ev.type = "ModifiersChanged" =>
              /\ modifier_state' = last_op'.ev.state
              /\ raw_input' = raw_input
              /\ pointer_pos' = pointer_pos
              /\ scale_factor' = scale_factor
        /\ last_op'.ev.type \in {"ModifiersChanged", "Resized",
                                 "ScaleFactorChanged", "MouseWheel"} =>
              raw_input'.events = raw_input.events]_vars

\* ctrl went down while a pointer move, a scroll delta and a time were pending
C16_Witness ==
    /\ last_op.op = "handle_event"
    /\ last_op.ev = ModifiersChanged(Ctrl)
    /\ modifier_state = Ctrl
    /\ Len(raw_input.events) = 1
    /\ raw_input.scroll_delta # Zero2
    /\ IsSome(raw_input.time)

\* the window event kinds handle_event has an arm for
HandledKinds ==
    {"Resized", "ScaleFactorChanged", "MouseInput", "MouseWheel", "CursorMoved",
     "CursorLeft", "ModifiersChanged", "KeyboardInput"}

\* a device event, an event of no window, or a window event of another kind
IsForeign(ev) == ev.ev # "WindowEvent" \/ ev.type \notin HandledKinds

IsOtherButton(ev) ==
    /\ ev.ev = "WindowEvent" /\ ev.type = "MouseInput" /\ ev.button = "Other"

\* a press of a key outside the key table, carrying no decoded text
IsUnmappedPress(ev) ==
    /\ ev.ev = "WindowEvent" /\ ev.type = "KeyboardInput"
    /\ ev.state = Pressed
    /\ ~IsSome(winit_to_egui_key_code(ev.logical_key))
    /\ ~IsSome(ev.text)

\* Platform and context are after the step what they were before it
BridgeUnchanged ==
    /\ scale_factor' = scale_factor
    /\ raw_input' = raw_input
    /\ modifier_state' = modifier_state
    /\ pointer_pos' = pointer_pos
    /\ clipboard' = clipboard
    /\ context' = context

\* C17 as stated: handle_event leaves the whole bridge state unchanged for
\* every device-level event, every non-window event, every window event kind
\* outside the handled set, a MouseInput with an Other(..) button, and a key
\* press of an unmapped key without decoded text.
C17_IgnoredEventsChangeNothing ==
    [][(/\ last_op'.op = "handle_event"
        /\ \/ IsForeign(last_op'.ev)
           \/ IsOtherButton(last_op'.ev)
           \/ IsUnmappedPress(last_op'.ev))
       => BridgeUnchanged]_vars

\* c or x pressed under ctrl, or v pressed under ctrl with a clipboard whose
\* read succeeded
IsShortcut(ev, modifiers, read) ==
    /\ control_key(modifiers)
    /\ \/ is_char(ev.logical_key, Str_c)
       \/ is_char(ev.logical_key, Str_x)
       \/ /\ is_char(ev.logical_key, Str_v)
          /\ IsSome(read)
          /\ IsOk(Unwrap(read))

\* C17, amended: the same, the key press being none of the shortcuts ctrl+c,
\* ctrl+x and ctrl+v with a readable clipboard, which push Copy, Cut and Text
\* although c, x and v are outside the key table.
C17_IgnoredEventsChangeNothingButShortcuts ==
    [][(/\ last_op'.op = "handle_event"
        /\ \/ IsForeign(last_op'.ev)
           \/ IsOtherButton(last_op'.ev)
           \/ /\ IsUnmappedPress(last_op'.ev)
              /\ ~IsShortcut(last_op'.ev, modifier_state, last_op'.read))
       => BridgeUnchanged]_vars

\* ctrl+v went by with a clipboard read that failed, a pointer move and a
\* time still pending
C17_Witness ==
    /\ last_op.op = "handle_event"
    /\ last_op.ev = KeyboardInput(Pressed, Character(Str_v), Nothing)
    /\ last_op.read = Some(Err)
    /\ Len(raw_input.events) = 1
    /\ IsSome(raw_input.time)

\* an Other(..) button went by while a pointer move was pending
C17_WitnessOtherButton ==
    /\ last_op.op = "handle_event"
    /\ last_op.ev = MouseInput(Pressed, "Other")
    /\ Len(raw_input.events) = 1

IsCursorMovedStep == last_op'.op = "handle_event" /\ last_op'.ev.type = "CursorMoved"

\* C20: CursorMoved stores the physical position divided by the scale factor
\* stored when it is handled; no other call writes the pointer position, not
\* ScaleFactorChanged, Resized, CursorLeft, MouseInput, begin_frame or
\* end_frame; and a PointerButton event carries the stored position, so after
\* a change of scale factor it is still the one computed with the old factor.
C20_PointerPosWrittenByCursorMovedOnly ==
    [][/\ IsCursorMovedStep =>
            /\ IsQuotient(pointer_pos'.x, last_op'.ev.x, scale_factor)
            /\ IsQuotient(pointer_pos'.y, last_op'.ev.y, scale_factor)
       /\ ~IsCursorMovedStep => pointer_pos' = pointer_pos
       /\ (/\ last_op'.op = "handle_event"
           /\ last_op'.ev.type = "MouseInput"
           /\ last_op'.ev.button # "Other")
            => /\ Len(StepPushed) = 1
               /\ StepPushed[1].pos = pointer_pos]_vars

\* moved to (100, 100) at scale factor 2, the scale factor changed to 1, then
\* the button: the event carries (50, 50), not (100, 100)
C20_Witness ==
    /\ last_op.op = "handle_event"
    /\ last_op.ev = MouseInput(Pressed, "Left")
    /\ last_moved = Some([x |-> 100, y |-> 100, scale_factor |-> <<2, 1>>])
    /\ scale_factor = <<1, 1>>
    /\ raw_input.events # <<>>
    /\ raw_input.events[Len(raw_input.events)].type = "PointerButton"
    /\ raw_input.events[Len(raw_input.events)].pos = pos2(<<50, 1>>, <<50, 1>>)

====
